---- MODULE Spec2Model ----
(***************************************************************************)
(* A model of dockerhub_tag_search.py: the paginated fetch of an image's   *)
(* tags (retrieve_tags / try_get), the expansion of tags into one row per  *)
(* (tag, image) pair, the five filters, the optional sort by size and the  *)
(* three output formats.                                                   *)
(*                                                                         *)
(* Python values are tagged records, so that None, numbers and strings     *)
(* can be told apart: None, Num(n), Str(s) with s a sequence of one-       *)
(* character strings, Iso(sec, usec) for an ISO-8601 date string (the      *)
(* instant it denotes), Float(sec) / NegInf / PosInf for the timestamps    *)
(* parse_args and filter_date compare.  A dict is a function from field    *)
(* names to values.                                                        *)
(***************************************************************************)
EXTENDS Integers, Sequences, FiniteSets, TLC

VARIABLES
    pc,          \* where main() is
    opts,        \* the command line, as typed
    args,        \* parse_args' result
    pages,       \* the registry's answer: the 'results' of page 1, 2, ...
    target_url,  \* retrieve_tags: the page to get next, 0 for no URL
    tags,        \* retrieve_tags: the tags accumulated so far
    retries,     \* try_get: attempts left
    urlGets,     \* GET requests issued for the current URL
    nGets,       \* GET requests issued in all
    nFail,       \* transport failures seen in all
    slept,       \* seconds slept in all
    warned,      \* the invalid-username-or-image warning was logged
    rows,        \* main's local 'tags' from expand_tags on
    out,         \* what was printed: <<>> or <<the rows printed>>
    exc,         \* the exception main() ended with, "none" if none
    applied      \* FilterSpec only: the filters applied so far

vars == <<pc, opts, args, pages, target_url, tags, retries, urlGets, nGets,
          nFail, slept, warned, rows, out, exc, applied>>

----------------------------------------------------------------------------
(* Bounds of the model.                                                    *)

\* The longest chain of pages the registry answers with.
MaxPages == 3
\* The most tags an image has.
MaxTags == 3

----------------------------------------------------------------------------
(* Python values.                                                          *)

None == [t |-> "None"]
Num(n) == [t |-> "int", v |-> n]
Str(s) == [t |-> "str", v |-> s]
Iso(sec, usec) == [t |-> "iso", sec |-> sec, usec |-> usec]
Float(sec) == [t |-> "float", v |-> sec]
NegInf == [t |-> "-inf"]
PosInf == [t |-> "inf"]

\* Python's truth value of a value.
Truthy(x) ==
    CASE x.t = "None" -> FALSE
      [] x.t = "int" -> x.v # 0
      [] x.t = "str" -> x.v # <<>>
      [] OTHER -> TRUE

\* a <= b on floats, the infinities included.
FloatLE(a, b) ==
    \/ a.t = "-inf"
    \/ b.t = "inf"
    \/ a.t = "float" /\ b.t = "float" /\ a.v <= b.v

\* defaultdict(lambda: None, tag)[k]
Get(tag, k) == IF k \in DOMAIN tag THEN tag[k] ELSE None

\* The string of a field that is read with "tag[k] or ''".
OrEmpty(x) == IF Truthy(x) THEN x.v ELSE <<>>

----------------------------------------------------------------------------
(* Regular expressions.  A pattern is a sequence of tokens: "^", "$",      *)
(* ".*" or a literal character; re.escape leaves the letters and digits    *)
(* of the model's alphabet as they are.                                    *)

Lower(c) ==
    CASE c = "A" -> "a"
      [] c = "B" -> "b"
      [] c = "X" -> "x"
      [] OTHER -> c

RECURSIVE MatchFrom(_, _, _)
\* pattern p matches a prefix of s; atStart: s starts at position 0.
MatchFrom(p, s, atStart) ==
    IF p = <<>> THEN TRUE
    ELSE LET tok == Head(p) IN
         CASE tok = "^" -> atStart /\ MatchFrom(Tail(p), s, atStart)
           [] tok = "$" -> s = <<>> /\ MatchFrom(Tail(p), s, atStart)
           [] tok = ".*" ->
                \E k \in 0..Len(s) :
                    MatchFrom(Tail(p), SubSeq(s, k + 1, Len(s)), atStart /\ k = 0)
           [] OTHER ->
                /\ s # <<>>
                /\ Lower(Head(s)) = Lower(tok)
                /\ MatchFrom(Tail(p), Tail(s), FALSE)

\* re.match(pattern, s, re.IGNORECASE) is not None
re_match(pattern, s) == MatchFrom(pattern, s, TRUE)

\* '^' + '.*'.join(map(re.escape, pattern.split('*'))) + '$', '' for ''
wildcard_match_to_regex(pattern) ==
    IF pattern = <<>> THEN <<>>
    ELSE <<"^">>
           \o [i \in 1..Len(pattern) |->
                  IF pattern[i] = "*" THEN ".*" ELSE pattern[i]]
           \o <<"$">>

----------------------------------------------------------------------------
(* Results of a step that may raise.                                       *)

Ok(r) == [exc |-> "none", rows |-> r]
Raise(e) == [exc |-> e, rows |-> <<>>]

----------------------------------------------------------------------------
(* parse_args: the conversions of the command line's values.               *)

\* A size as typed after --below: a number and a unit.
Size(num, unit) == [t |-> "size", num |-> num, unit |-> unit]

\* humanfriendly.parse_size: decimal units, "1KB" is 1000 bytes.
parse_size(x) == Num(x.num * (IF x.unit = "KB" THEN 1000 ELSE 1))

\* time.mktime(ciso8601.parse_datetime(s).timetuple()): a time tuple holds
\* whole seconds, the microseconds of the date are dropped.
mktime(date) == Float(date.sec)

\* --before / --after: a string is parsed, the default infinity is left.
parse_bound(x) == IF x.t = "iso" THEN mktime(x) ELSE x

\* if args.below: args.below = humanfriendly.parse_size(args.below)
parse_below(x) == IF Truthy(x) THEN parse_size(x) ELSE x

\* args.regex and args.name both given: ValueError
BothGiven(o) == o.regex # <<>> /\ o.name # <<>>

parse_args(o) ==
    [ regex |-> IF o.name # <<>> THEN wildcard_match_to_regex(o.name)
                ELSE o.regex,
      operating_system |-> wildcard_match_to_regex(o.operating_system),
      architecture |-> wildcard_match_to_regex(o.architecture),
      below |-> parse_below(o.below),
      format |-> o.format,
      before |-> parse_bound(o.before),
      after |-> parse_bound(o.after),
      sort |-> o.sort ]

----------------------------------------------------------------------------
(* Rows and the filters.                                                   *)

get_image_os(tag) ==
    OrEmpty(Get(tag, "image_os")) \o OrEmpty(Get(tag, "image_os_features"))
        \o OrEmpty(Get(tag, "image_os_version"))

get_image_arch(tag) ==
    OrEmpty(Get(tag, "image_architecture")) \o OrEmpty(Get(tag, "image_features"))
        \o OrEmpty(Get(tag, "image_variant"))

get_push_date_from_tag(tag) ==
    IF Truthy(Get(tag, "image_last_pushed")) THEN Get(tag, "image_last_pushed")
    ELSE Get(tag, "tag_last_pushed")

\* [tag for tag in tags if keep(tag)] is SelectSeq(tags, keep).

filter_tags(tgs, pattern) ==
    IF pattern = <<>> THEN Ok(tgs)
    ELSE LET keep(tag) == re_match(pattern, Get(tag, "name").v)
         IN  Ok(SelectSeq(tgs, keep))

filter_arch(tgs, pattern) ==
    IF pattern = <<>> THEN Ok(tgs)
    ELSE LET keep(tag) == re_match(pattern, get_image_arch(tag))
         IN  Ok(SelectSeq(tgs, keep))

filter_os(tgs, pattern) ==
    IF pattern = <<>> THEN Ok(tgs)
    ELSE LET keep(tag) == re_match(pattern, get_image_os(tag))
         IN  Ok(SelectSeq(tgs, keep))

\* A bug: no early return for the open-ended range.
filter_date_no_default(tgs, after, before) ==
    LET keep(tag) ==
            LET push_date == get_push_date_from_tag(tag)
            IN  /\ push_date # None
                /\ FloatLE(after, mktime(push_date))
                /\ FloatLE(mktime(push_date), before)
    IN  Ok(SelectSeq(tgs, keep))

filter_date(tgs, after, before) ==
    IF after = NegInf /\ before = PosInf THEN Ok(tgs)
    ELSE LET keep(tag) ==
                 LET push_date == get_push_date_from_tag(tag)
                 IN  /\ push_date # None
                     /\ FloatLE(after, mktime(push_date))
                     /\ FloatLE(mktime(push_date), before)
         IN  Ok(SelectSeq(tgs, keep))

\* tag['image_size'] <= size raises TypeError when the size is None.
filter_size(tgs, size) ==
    IF ~Truthy(size) THEN Ok(tgs)
    ELSE IF \E i \in 1..Len(tgs) : Get(tgs[i], "image_size") = None
         THEN Raise("TypeError")
         ELSE LET keep(tag) == Get(tag, "image_size").v <= size.v
              IN  Ok(SelectSeq(tgs, keep))

----------------------------------------------------------------------------
(* expand_tags.                                                            *)

\* {k: v for k, v in tag.items() if k != 'images'} merged with the image's
\* items under 'image_' + key; the later dict wins a shared key.
expand_row(tag, image) ==
    LET tkeys == DOMAIN tag \ {"images"}
        ikeys == {"image_" \o k : k \in DOMAIN image}
    IN  [k \in tkeys \cup ikeys |->
            IF k \in ikeys
            THEN image[CHOOSE j \in DOMAIN image : "image_" \o j = k]
            ELSE tag[k]]

\* A bug: only the first image of each tag expanded.
RECURSIVE expand_tags_first_image(_)
expand_tags_first_image(tgs) ==
    IF tgs = <<>> THEN <<>>
    ELSE LET tag == Head(tgs)
         IN  (IF tag.images = <<>> THEN <<>>
              ELSE <<expand_row(tag, tag.images[1])>>)
                 \o expand_tags_first_image(Tail(tgs))

RECURSIVE expand_tags(_)
expand_tags(tgs) ==
    IF tgs = <<>> THEN <<>>
    ELSE LET tag == Head(tgs)
         IN  [i \in 1..Len(tag.images) |-> expand_row(tag, tag.images[i])]
                 \o expand_tags(Tail(tgs))

----------------------------------------------------------------------------
(* sorted(tags, key=lambda tag: int(tag['image_size'])).                   *)

\* A bug: x put before the elements of the same key, an unstable sort.
RECURSIVE InsertBeforeEqual(_, _)
InsertBeforeEqual(x, s) ==
    IF s = <<>> THEN <<x>>
    ELSE IF Get(Head(s), "image_size").v < Get(x, "image_size").v
         THEN <<Head(s)>> \o InsertBeforeEqual(x, Tail(s))
         ELSE <<x>> \o s

\* x put after every element of the sorted s whose key is not larger.
RECURSIVE Insert(_, _)
Insert(x, s) ==
    IF s = <<>> THEN <<x>>
    ELSE IF Get(Head(s), "image_size").v <= Get(x, "image_size").v
         THEN <<Head(s)>> \o Insert(x, Tail(s))
         ELSE <<x>> \o s

RECURSIVE StableSort(_)
StableSort(s) ==
    IF s = <<>> THEN <<>>
    ELSE Insert(s[Len(s)], StableSort(SubSeq(s, 1, Len(s) - 1)))

\* int(None) raises TypeError.
sorted_by_size(tgs) ==
    IF \E i \in 1..Len(tgs) : Get(tgs[i], "image_size") = None
    THEN Raise("TypeError")
    ELSE Ok(StableSort(tgs))

----------------------------------------------------------------------------
(* The three output formats.                                               *)

\* humanfriendly.format_size(tag['image_size']) compares the size with the
\* units' dividers: TypeError for None.
table_print_tags(tgs) ==
    IF \E i \in 1..Len(tgs) : Get(tgs[i], "image_size") = None
    THEN Raise("TypeError")
    ELSE Ok(tgs)

\* json.dumps(tags)
json_print_tags(tgs) == Ok(tgs)

\* fields = tags[0].keys(): IndexError for no rows.
csv_print_tags(tgs) ==
    IF tgs = <<>> THEN Raise("IndexError") ELSE Ok(tgs)

----------------------------------------------------------------------------
(* The inputs: the tags the registry lists and the command lines typed.    *)

\* name "a1": an image pushed half a second past second 20, and one with
\* a null push date that falls back on the tag's.
TagA ==
    [ name |-> Str(<<"a", "1">>),
      tag_last_pushed |-> Iso(10, 0),
      images |-> <<
        [ architecture |-> Str(<<"a", "m", "d">>), os |-> Str(<<"l", "x">>),
          size |-> Num(1), last_pushed |-> Iso(20, 500000) ],
        [ architecture |-> Str(<<"a", "r", "m">>), variant |-> Str(<<"8">>),
          os |-> Str(<<"l", "x">>), size |-> Num(1000), last_pushed |-> None ] >> ]

\* name "b": no push date at all and an image without a size.
TagB ==
    [ name |-> Str(<<"b">>),
      tag_last_pushed |-> None,
      images |-> <<
        [ architecture |-> Str(<<"a", "m", "d">>), os |-> Str(<<"l", "x">>) ] >> ]

\* name "A2": a tag without images.
TagC ==
    [ name |-> Str(<<"A", "2">>),
      tag_last_pushed |-> Iso(20, 0),
      images |-> << >> ]

\* name "ab": an image of the size of TagA's first, pushed after second 20.
TagD ==
    [ name |-> Str(<<"a", "b">>),
      tag_last_pushed |-> Iso(5, 0),
      images |-> <<
        [ architecture |-> Str(<<"a", "m", "d">>), os |-> Str(<<"w", "n">>),
          os_version |-> Str(<<"1">>), size |-> Num(1001),
          last_pushed |-> Iso(9, 500000) ],
        [ architecture |-> Str(<<"A", "M", "D">>), os |-> Str(<<"l", "x">>),
          size |-> Num(1), last_pushed |-> Iso(21, 0) ] >> ]

TagPool == {TagA, TagB, TagC, TagD}

\* The tags of the images whose fetch is followed page by page.
FetchPool == {TagA, TagC, TagD}

\* The lists of at most n tags of pool, no tag listed twice.
RECURSIVE TagLists(_, _)
TagLists(pool, n) ==
    IF n = 0 THEN {<<>>}
    ELSE LET shorter == TagLists(pool, n - 1)
         IN  shorter \cup
             { Append(x[1], x[2]) : x \in
                 { y \in shorter \X pool :
                     /\ Len(y[1]) = n - 1
                     /\ \A i \in 1..Len(y[1]) : y[1][i] # y[2] } }

\* A list of tags cut into n pages, some of them possibly empty.
Cuts(l, n) ==
    { c \in [0..n -> 0..Len(l)] :
        /\ c[0] = 0
        /\ c[n] = Len(l)
        /\ \A i \in 1..n : c[i - 1] <= c[i] }

Chains ==
    UNION { UNION { { [i \in 1..n |-> SubSeq(l, c[i - 1] + 1, c[i])] :
                        c \in Cuts(l, n) } : n \in 1..MaxPages } :
            l \in TagLists(FetchPool, MaxTags) }

\* The command line of "prog image".
DefaultOpts ==
    [ name |-> <<>>, regex |-> <<>>, architecture |-> <<>>,
      operating_system |-> <<>>, sort |-> FALSE, format |-> "table",
      below |-> None, after |-> NegInf, before |-> PosInf ]

\* The filter options typed.
FilterOpts ==
    [ name : {<<>>, <<"a", "*">>},
      regex : {<<>>, <<"b">>},
      architecture : {<<>>, <<"a", "m", "d">>},
      operating_system : {<<>>, <<"l", "*">>},
      sort : {FALSE},
      format : {"table"},
      below : {None, Size(0, "B"), Size(1, "B"), Size(1, "KB")},
      after : {NegInf, Iso(10, 0)},
      before : {PosInf, Iso(20, 0)} ]

\* The command lines of the runs that print.
PipeOpts ==
    [ name : {<<>>, <<"a", "*">>},
      regex : {<<>>, <<"b">>},
      architecture : {<<>>},
      operating_system : {<<>>},
      sort : BOOLEAN,
      format : {"table", "json", "csv"},
      below : {None, Size(0, "B"), Size(1, "B"), Size(1, "KB")},
      after : {NegInf, Iso(10, 0)},
      before : {PosInf, Iso(20, 0)} ]

----------------------------------------------------------------------------
(* The program: main(parse_args()).                                        *)

\* try_get's default number of attempts and delay between them, in seconds.
Retries == 3
SleepSeconds == 1

NoArgs == parse_args(DefaultOpts)

\* All the tags of a chain of pages, in page order.
RECURSIVE AllTags(_)
AllTags(ps) == IF ps = <<>> THEN <<>> ELSE Head(ps) \o AllTags(Tail(ps))

\* tags_curr_page['next']: the URL of the page after page u, 0 for null.
NextUrl(ps, u) == IF u < Len(ps) THEN u + 1 ELSE 0

\* A bug: the page's results put in front of the tags got so far.
AccumulateInFront(tgs, results) == results \o tgs

\* tags += tags_curr_page['results']
Accumulate(tgs, results) == tgs \o results

\* A bug: the tags got so far returned when a page answers another status.
StatusCodeResultPartial(tgs) == tgs

\* except StatusCodeException: ... return []
StatusCodeResult(tgs) == <<>>

\* A bug: the failure raised while one attempt is left.
ShouldRaiseEarly(r) == r <= 1

\* except requests.RequestException: ... if not retries: raise
ShouldRaise(r) == r = 0

InitWith(o, ps) ==
    /\ pc = "parse_args"
    /\ opts = o
    /\ args = NoArgs
    /\ pages = ps
    /\ target_url = 0
    /\ tags = <<>>
    /\ retries = 0
    /\ urlGets = 0
    /\ nGets = 0
    /\ nFail = 0
    /\ slept = 0
    /\ warned = FALSE
    /\ rows = <<>>
    /\ out = <<>>
    /\ exc = "none"
    /\ applied = {}

\* Any chain of pages, fetched by "prog image".
InitFetch == \E ps \in Chains : InitWith(DefaultOpts, ps)

\* One page of tags, any of the command lines that print.
InitPipe ==
    \E o \in PipeOpts, l \in TagLists(TagPool, MaxTags) \ {<<>>} : InitWith(o, <<l>>)

Init == InitFetch \/ InitPipe

\* parse_args(): ValueError when both --regex and --name are given.
ParseArgs ==
    /\ pc = "parse_args"
    /\ IF BothGiven(opts)
       THEN /\ pc' = "done"
            /\ exc' = "ValueError"
            /\ args' = args
       ELSE /\ pc' = "retrieve_tags"
            /\ exc' = exc
            /\ args' = parse_args(opts)
    /\ UNCHANGED <<opts, pages, target_url, tags, retries, urlGets, nGets,
                   nFail, slept, warned, rows, out, applied>>

\* retrieve_tags: tags = [], target_url = the URL of page 1.
RetrieveTags ==
    /\ pc = "retrieve_tags"
    /\ tags' = <<>>
    /\ target_url' = 1
    /\ pc' = "while_url"
    /\ UNCHANGED <<opts, args, pages, retries, urlGets, nGets, nFail, slept,
                   warned, rows, out, exc, applied>>

\* while target_url: call try_get; else return tags, and main returns at
\* once when there are none.
WhileUrl ==
    /\ pc = "while_url"
    /\ IF target_url # 0
       THEN /\ retries' = Retries
            /\ urlGets' = 0
            /\ pc' = "try_get"
       ELSE /\ UNCHANGED <<retries, urlGets>>
            /\ pc' = IF tags = <<>> THEN "done" ELSE "expand"
    /\ UNCHANGED <<opts, args, pages, target_url, tags, nGets, nFail, slept,
                   warned, rows, out, exc, applied>>

\* An attempt answered with HTTP 200: try_get returns the response and
\* retrieve_tags takes the page's results and its 'next'.
TryGetOk ==
    /\ pc = "try_get"
    /\ retries' = retries - 1
    /\ urlGets' = urlGets + 1
    /\ nGets' = nGets + 1
    /\ tags' = Accumulate(tags, pages[target_url])
    /\ target_url' = NextUrl(pages, target_url)
    /\ pc' = "while_url"
    /\ UNCHANGED <<opts, args, pages, nFail, slept, warned, rows, out, exc,
                   applied>>

\* An attempt answered with another status: StatusCodeException leaves
\* try_get, retrieve_tags logs the warning and returns, main returns when
\* it got no tags.
TryGetStatus ==
    /\ pc = "try_get"
    /\ retries' = retries - 1
    /\ urlGets' = urlGets + 1
    /\ nGets' = nGets + 1
    /\ warned' = TRUE
    /\ tags' = StatusCodeResult(tags)
    /\ pc' = IF tags' = <<>> THEN "done" ELSE "expand"
    /\ UNCHANGED <<opts, args, pages, target_url, nFail, slept, rows, out,
                   exc, applied>>

\* An attempt that fails in transport: requests.RequestException, raised
\* again when no attempt is left.
TryGetFail ==
    /\ pc = "try_get"
    /\ retries' = retries - 1
    /\ urlGets' = urlGets + 1
    /\ nGets' = nGets + 1
    /\ nFail' = nFail + 1
    /\ IF ShouldRaise(retries')
       THEN /\ pc' = "done"
            /\ exc' = "RequestException"
       ELSE /\ pc' = "sleep"
            /\ exc' = exc
    /\ UNCHANGED <<opts, args, pages, target_url, tags, slept, warned, rows,
                   out, applied>>

\* time.sleep(sleep), then "while retries:"; a loop that ends returns None
\* and retrieve_tags fails on response.text.
Sleep ==
    /\ pc = "sleep"
    /\ slept' = slept + SleepSeconds
    /\ IF retries # 0
       THEN /\ pc' = "try_get"
            /\ exc' = exc
       ELSE /\ pc' = "done"
            /\ exc' = "AttributeError"
    /\ UNCHANGED <<opts, args, pages, target_url, tags, retries, urlGets,
                   nGets, nFail, warned, rows, out, applied>>

\* tags = list(map(defaultdict, expand_tags(tags)))
Expand ==
    /\ pc = "expand"
    /\ rows' = expand_tags(tags)
    /\ pc' = "filter_tags"
    /\ UNCHANGED <<opts, args, pages, target_url, tags, retries, urlGets,
                   nGets, nFail, slept, warned, out, exc, applied>>

\* tags = f(tags, ...), or the exception f raised ends main.
Step(res, next) ==
    /\ IF res.exc = "none"
       THEN /\ rows' = res.rows
            /\ exc' = exc
            /\ pc' = next
       ELSE /\ rows' = rows
            /\ exc' = res.exc
            /\ pc' = "done"
    /\ UNCHANGED <<opts, args, pages, target_url, tags, retries, urlGets,
                   nGets, nFail, slept, warned, out>>

FilterTags ==
    /\ pc = "filter_tags"
    /\ Step(filter_tags(rows, args.regex), "filter_arch")
    /\ UNCHANGED applied

FilterArch ==
    /\ pc = "filter_arch"
    /\ Step(filter_arch(rows, args.architecture), "filter_os")
    /\ UNCHANGED applied

FilterOs ==
    /\ pc = "filter_os"
    /\ Step(filter_os(rows, args.operating_system), "filter_date")
    /\ UNCHANGED applied

FilterDate ==
    /\ pc = "filter_date"
    /\ Step(filter_date(rows, args.after, args.before), "filter_size")
    /\ UNCHANGED applied

FilterSize ==
    /\ pc = "filter_size"
    /\ Step(filter_size(rows, args.below), "sort")
    /\ UNCHANGED applied

\* if args.sort: tags = sorted(tags, key=...)
Sort ==
    /\ pc = "sort"
    /\ Step(IF args.sort THEN sorted_by_size(rows) ELSE Ok(rows), "print")
    /\ UNCHANGED applied

\* The output in the format asked for.
print_tags(tgs, format) ==
    CASE format = "table" -> table_print_tags(tgs)
      [] format = "json" -> json_print_tags(tgs)
      [] format = "csv" -> csv_print_tags(tgs)

Present ==
    /\ pc = "print"
    /\ LET res == print_tags(rows, args.format)
       IN  /\ out' = IF res.exc = "none" THEN <<res.rows>> ELSE out
           /\ exc' = res.exc
    /\ pc' = "done"
    /\ UNCHANGED <<opts, args, pages, target_url, tags, retries, urlGets,
                   nGets, nFail, slept, warned, rows, applied>>

Next ==
    \/ ParseArgs
    \/ RetrieveTags
    \/ WhileUrl
    \/ TryGetOk
    \/ TryGetStatus
    \/ TryGetFail
    \/ Sleep
    \/ Expand
    \/ FilterTags
    \/ FilterArch
    \/ FilterOs
    \/ FilterDate
    \/ FilterSize
    \/ Sort
    \/ Present

Spec == Init /\ [][Next]_vars

\* The fetch of any chain of pages.  The program is one thread that runs
\* until it returns or raises: a step that can be taken is taken.
FetchSpec == InitFetch /\ [][Next]_vars /\ WF_vars(Next)

\* The runs that filter, sort and print one page of tags.
PipeSpec == InitPipe /\ [][Next]_vars

----------------------------------------------------------------------------
(* The filters as functions: any of the five applied to the rows, each     *)
(* once, in any order.                                                     *)

AllFilters == {"tags", "arch", "os", "date", "size"}

\* main's order: filter_tags, filter_arch, filter_os, filter_date,
\* filter_size, each on what the one before returned; the first that
\* raises ends the run.
filter_pipeline(tgs, a) ==
    LET r1 == filter_tags(tgs, a.regex)
        r2 == IF r1.exc = "none" THEN filter_arch(r1.rows, a.architecture) ELSE r1
        r3 == IF r2.exc = "none" THEN filter_os(r2.rows, a.operating_system) ELSE r2
        r4 == IF r3.exc = "none" THEN filter_date(r3.rows, a.after, a.before) ELSE r3
    IN  IF r4.exc = "none" THEN filter_size(r4.rows, a.below) ELSE r4

\* The rows of any list of tags and the arguments of any command line
\* that parse_args accepts.
InitFilter ==
    \E o \in {x \in FilterOpts : ~BothGiven(x)}, l \in TagLists(TagPool, MaxTags) :
        /\ pc = "filters"
        /\ opts = o
        /\ args = parse_args(o)
        /\ pages = <<l>>
        /\ target_url = 0
        /\ tags = l
        /\ retries = 0
        /\ urlGets = 0
        /\ nGets = 0
        /\ nFail = 0
        /\ slept = 0
        /\ warned = FALSE
        /\ rows = expand_tags(l)
        /\ out = <<>>
        /\ exc = "none"
        /\ applied = {}

\* tags = f(tags, ...) for a filter f not applied yet.
Apply(f, res) ==
    /\ pc = "filters"
    /\ f \notin applied
    /\ applied' = applied \cup {f}
    /\ IF res.exc = "none"
       THEN /\ rows' = res.rows
            /\ exc' = exc
            /\ pc' = pc
       ELSE /\ rows' = rows
            /\ exc' = res.exc
            /\ pc' = "raised"
    /\ UNCHANGED <<opts, args, pages, target_url, tags, retries, urlGets,
                   nGets, nFail, slept, warned, out>>

ApplyTags == Apply("tags", filter_tags(rows, args.regex))
ApplyArch == Apply("arch", filter_arch(rows, args.architecture))
ApplyOs == Apply("os", filter_os(rows, args.operating_system))
ApplyDate == Apply("date", filter_date(rows, args.after, args.before))
ApplySize == Apply("size", filter_size(rows, args.below))

NextFilter ==
    \/ ApplyTags
    \/ ApplyArch
    \/ ApplyOs
    \/ ApplyDate
    \/ ApplySize

FilterSpec == InitFilter /\ [][NextFilter]_vars

----------------------------------------------------------------------------
(* Properties.                                                             *)

FetchPcs == {"parse_args", "retrieve_tags", "while_url", "try_get", "sleep"}
PipePcs == {"expand", "filter_tags", "filter_arch", "filter_os",
            "filter_date", "filter_size", "sort", "print"}

\* retrieve_tags returned the list it accumulated.
Returned ==
    /\ pc \notin FetchPcs
    /\ ~warned
    /\ exc \notin {"ValueError", "RequestException", "AttributeError"}

C1_Result ==
    Returned =>
        /\ tags = AllTags(pages)
        /\ nFail = 0 => nGets = Len(pages)

\* C1: retrieve_tags follows the 'next' cursor until it is absent: what it
\* returns is the concatenation of the pages' results in fetch order, with
\* exactly one GET per page when no attempt fails (3 for a chain of 3
\* pages), and the run ends.
C1_Pagination == [](C1_Result) /\ <>(pc = "done")

\* A chain of three pages, tags on more than one of them, each page got
\* once, and the rows printed.
C1_Witness ==
    /\ pc = "done"
    /\ Len(pages) = 3
    /\ pages[1] # <<>>
    /\ pages[3] # <<>>
    /\ nGets = 3
    /\ nFail = 0
    /\ ~warned
    /\ out # <<>>

\* C2: no partial results: the rows that reach the filters and the
\* presenter are built from the tags of all the pages; a response other
\* than 200 on any page leaves no tags, no rows and no output, and is no
\* error; a transport failure that ends the run leaves no rows and no
\* output either.
C2_NoPartialResults ==
    /\ (pc \in PipePcs \/ out # <<>>) => (tags = AllTags(pages) /\ ~warned)
    /\ pc = "filter_tags" => rows = expand_tags(AllTags(pages))
    /\ warned =>
          /\ pc = "done"
          /\ tags = <<>>
          /\ rows = <<>>
          /\ out = <<>>
          /\ exc = "none"
    /\ exc = "RequestException" => (pc = "done" /\ rows = <<>> /\ out = <<>>)

\* The third page answers with another status after two pages of tags.
C2_Witness ==
    /\ warned
    /\ pc = "done"
    /\ target_url = 3
    /\ pages[1] # <<>>
    /\ pages[2] # <<>>

C3_State ==
    /\ urlGets <= 3
    /\ pc = "try_get" => (retries > 0 /\ urlGets + retries = 3)
    /\ pc = "sleep" => urlGets \in {1, 2}
    /\ exc = "RequestException" => urlGets = 3
    /\ exc # "AttributeError"

C3_Step ==
    /\ pc = "sleep" =>
          (pc' = "try_get" /\ slept' = slept + 1 /\ nGets' = nGets)
    /\ (pc = "try_get" /\ nFail' = nFail + 1 /\ urlGets' < 3) => pc' = "sleep"
    /\ (pc = "try_get" /\ nFail' = nFail + 1 /\ urlGets' = 3) =>
          (pc' = "done" /\ exc' = "RequestException")
    /\ (pc = "try_get" /\ nGets' = nGets + 1 /\ nFail' = nFail /\ ~warned') =>
          (pc' = "while_url" /\ slept' = slept /\ exc' = "none")

\* C3: try_get makes at most 3 attempts for a URL; a transport failure of
\* attempt 1 or 2 is followed by a sleep of 1 second and another attempt;
\* a success returns at once; the failure of attempt 3 is raised; try_get
\* never returns without a response.
C3_BoundedRetry == [](C3_State) /\ [][C3_Step]_vars

\* Three failed attempts, two sleeps between them, and the failure raised.
C3_Witness ==
    /\ exc = "RequestException"
    /\ urlGets = 3
    /\ slept = 2

\* The number of rows the tags before tag j expand to.
RECURSIVE RowsBefore(_, _)
RowsBefore(tgs, j) ==
    IF j <= 1 THEN 0
    ELSE RowsBefore(tgs, j - 1) + Len(tgs[j - 1].images)

\* C4: expand_tags returns one row per image of each tag, sum(len(images))
\* in all, tags in their order and the images of a tag in theirs; a tag
\* without images gives no row and no error.
C4_ExpansionCardinality ==
    pc = "filter_tags" =>
        /\ exc = "none"
        /\ Len(rows) = RowsBefore(tags, Len(tags) + 1)
        /\ \A j \in 1..Len(tags) : \A l \in 1..Len(tags[j].images) :
              rows[RowsBefore(tags, j) + l] = expand_row(tags[j], tags[j].images[l])

\* Three tags expanded: one without images between two that have two.
C4_Witness ==
    /\ pc = "filter_tags"
    /\ Len(tags) = 3
    /\ Len(tags[1].images) = 2
    /\ tags[2].images = <<>>
    /\ Len(tags[3].images) = 2
    /\ Len(rows) = 4

\* What the filters applied so far gave.
Outcome == IF exc = "none" THEN Ok(rows) ELSE Raise(exc)

\* C5: the five filters applied in any order give what main's order
\* (name, architecture, OS, date, size) gives: the same rows in the same
\* order.
C5_FilterCommutativity ==
    (pc = "raised" \/ (pc = "filters" /\ applied = AllFilters)) =>
        Outcome = filter_pipeline(expand_tags(tags), args)

\* A filter f whose setting is unset.
Unset(f) ==
    CASE f = "tags" -> args.regex = <<>>
      [] f = "arch" -> args.architecture = <<>>
      [] f = "os" -> args.operating_system = <<>>
      [] f = "date" -> args.after = NegInf /\ args.before = PosInf
      [] f = "size" -> args.below = None

C6_Step ==
    \A f \in AllFilters :
        (f \notin applied /\ f \in applied' /\ Unset(f)) =>
            (rows' = rows /\ exc' = "none" /\ pc' = "filters")

\* C6: each of the five filters, its pattern empty or its bound unset,
\* returns the rows it was given: the same rows in the same order,
\* whatever their fields hold.
C6_FilterIdentity == [][C6_Step]_vars

\* The date and size filters, both unset, were applied to rows one of
\* which has neither a push date nor a size.
C6_Witness ==
    /\ pc = "filters"
    /\ applied = {"date", "size"}
    /\ Unset("date")
    /\ Unset("size")
    /\ Len(rows) >= 3
    /\ \E i \in 1..Len(rows) :
          /\ get_push_date_from_tag(rows[i]) = None
          /\ Get(rows[i], "image_size") = None

\* The row has a size, and it is at most b.
SizeAtMost(row, b) ==
    /\ Get(row, "image_size") # None
    /\ Get(row, "image_size").v <= b

C7_Step ==
    (/\ pc = "filter_size"
     /\ pc' = "sort"
     /\ opts.below # None
     /\ \A i \in 1..Len(rows) : Get(rows[i], "image_size") # None) =>
        LET keep(row) == SizeAtMost(row, parse_size(opts.below).v)
        IN  rows' = SelectSeq(rows, keep)

\* C7: with --below B the size filter keeps exactly the rows whose
\* image_size is at most B bytes (stated for rows that all have a size).
C7_SizeFilter == [][C7_Step]_vars

\* a <= b on the instants that two dates or infinities denote.
InstantLE(a, b) ==
    \/ a.t = "-inf"
    \/ b.t = "inf"
    \/ /\ a.t = "iso"
       /\ b.t = "iso"
       /\ (a.sec < b.sec \/ (a.sec = b.sec /\ a.usec <= b.usec))

C8_Step ==
    (/\ pc = "filter_date"
     /\ pc' = "filter_size"
     /\ (opts.after # NegInf \/ opts.before # PosInf)) =>
        LET keep(row) ==
                LET t == get_push_date_from_tag(row)
                IN  /\ t # None
                    /\ InstantLE(opts.after, t)
                    /\ InstantLE(t, opts.before)
        IN  rows' = SelectSeq(rows, keep)

\* C8: with --after or --before given, the date filter keeps a row iff
\* after <= t <= before, t being the image's push time or else the tag's;
\* a row with neither is dropped.
C8_DateFilter == [][C8_Step]_vars

SizeOf(row) == Get(row, "image_size").v

\* Where a stable ascending sort by size puts row i of r.
Rank(r, i) ==
    1 + Cardinality({j \in 1..Len(r) : SizeOf(r[j]) < SizeOf(r[i])})
      + Cardinality({j \in 1..(i - 1) : SizeOf(r[j]) = SizeOf(r[i])})

C9_Step ==
    /\ (pc = "sort" /\ pc' = "print" /\ args.sort) =>
          /\ Len(rows') = Len(rows)
          /\ \A i \in 1..Len(rows) : rows'[Rank(rows, i)] = rows[i]
          /\ \A i \in 1..Len(rows') : \A j \in i..Len(rows') :
                SizeOf(rows'[i]) <= SizeOf(rows'[j])
    /\ (pc = "sort" /\ ~args.sort) => (pc' = "print" /\ rows' = rows)
    /\ (pc = "print" /\ exc' = "none") => out' = <<rows>>

\* C9: with --sort the rows printed are the filtered rows in ascending
\* order of image_size, rows of equal size in the order they had; without
\* it the filtered rows are printed in the order they had.
C9_Sorter == [][C9_Step]_vars

\* Sorted rows printed: two of them differ and have the same size, and a
\* larger row came before the second of them.
C9_Witness ==
    /\ pc = "done"
    /\ args.sort
    /\ out = <<rows>>
    /\ Len(rows) >= 3
    /\ rows # expand_tags(tags)
    /\ \E i \in 1..(Len(rows) - 1) :
          /\ SizeOf(rows[i]) = SizeOf(rows[i + 1])
          /\ rows[i] # rows[i + 1]

C10_Step ==
    (/\ pc = "print"
     /\ \A i \in 1..Len(rows) : Get(rows[i], "image_size") # None) =>
        (pc' = "done" /\ exc' = "none")

\* C10: after a fetch that returned tags, the output mode chosen prints
\* the rows that are left, none included, without raising (stated for
\* rows that all have a size).
C10_PresenterTotality == [][C10_Step]_vars

====
